---- MODULE Spec2Model ----
(***************************************************************************)
(* The generic resource query builder of alertrs (src/database/*_macros.rs) *)
(* as a state machine over one resource table.  Every macro builds a       *)
(* statement (fields, value expressions, binds) the way the code does; the *)
(* Pg* operators give the statement the meaning PostgreSQL gives it.       *)
(*                                                                         *)
(* Payloads are integers: text values 1..MaxText, timestamps 0..,          *)
(* identifiers 1.., and Null for SQL NULL.                                 *)
(***************************************************************************)
EXTENDS Integers, Sequences, FiniteSets, TLC

\* ---------------------------------------------------------------- bounds
MaxTime == 1        \* the clock runs 0..MaxTime
MaxIds == 2         \* number of insert calls (each draws one UUID)
MaxText == 1        \* caller text payloads 1..MaxText
MaxFields == 2      \* longest caller field-value list

\* Duration::days(30), in clock units
ExpireDays == 30

Null == -1

\* ------------------------------------------------- resource descriptors
Resources == {"Authentication", "UserToken", "UserBackupCode"}

has_id(r) == TRUE
is_archivable(r) == r = "UserBackupCode"
is_updatable(r) == r \in {"Authentication", "UserBackupCode"}
is_creatable(r) == TRUE
is_expirable(r) == r = "Authentication"

\* columns of the resource's table; "rid" is the physical row identity
Columns == {"id", "user_id", "created_at", "updated_at", "expires_at", "archived_at"}
TextColumns == {"id", "user_id"}

\* ------------------------------------------------------- DatabaseValue
Tags == {"None", "Str", "String", "Text", "Int", "Int64", "Float", "Boolean", "DateTime"}
DatabaseValue(tag, v) == [tag |-> tag, v |-> v]
DbNone == DatabaseValue("None", Null)

\* a field name is a sequence of words; "x_updated_at" is <<"x", "updated_at">>
FieldName(s) == <<s>>
Contains(field, target) == \E i \in 1..Len(field) : field[i] = target
Param(field, value) == [field |-> field, value |-> value]

\* ---------------------------------------------------------- call inputs
\* conditions of find, delete and join: equality on the text columns
ConditionEntries ==
    {Param(FieldName("user_id"), DatabaseValue("String", t)) : t \in 1..MaxText}
    \cup {Param(FieldName("user_id"), DbNone)}
    \cup {Param(FieldName("id"), DatabaseValue("String", i)) : i \in 1..MaxIds}

\* fields of insert: a caller may also name an automatic field
CallerEntries ==
    ConditionEntries \cup {Param(FieldName("updated_at"), DatabaseValue("DateTime", 0))}

\* fields of update: the row's id is the key of the call, not a field to set
UpdateEntries == {e \in CallerEntries : e.field # FieldName("id")}

\* field names are unique per call
UniqueNames(params) ==
    \A i, j \in 1..Len(params) : params[i].field = params[j].field => i = j

Lists(entries) ==
    {l \in UNION {[1..n -> entries] : n \in 0..MaxFields} : UniqueNames(l)}

ParamLists == Lists(CallerEntries)
UpdateLists == Lists(UpdateEntries)
ConditionLists == Lists(ConditionEntries)

\* how a row mapping can fail: from_row returns Err, or a row.get inside it panics
MapFailures == {"Err", "Panic"}

\* from_row fails on the rows whose rid is in bad.rows: none, or one of the rows read
NoBad == [rows |-> {}, how |-> "Err"]
BadRows(rows) ==
    {NoBad} \cup {[rows |-> {row["rid"]}, how |-> h] : row \in rows, h \in MapFailures}

\* the outcome of mapping the given rows, in order, up to the first failure
MapOutcome(rows, bad) ==
    IF \E row \in rows : row["rid"] \in bad.rows THEN bad.how ELSE "Ok"

\* a second read of OffsetDateTime::now_utc() in the same call
ClockReads(t) == {u \in {t, t + 1} : u <= MaxTime}

VARIABLES resource, db, now, uuid, issued, last

vars == <<resource, db, now, uuid, issued, last>>

\* -------------------------------------------------------------- results
Ok(v) == [kind |-> "Ok", value |-> v]
Err(e) == [kind |-> "Err", value |-> e]
Panic == [kind |-> "Panic", value |-> "panic"]

\* DatabaseResource::from_row: the record of the row's columns; a row whose shape
\* does not fit gives the trait's Err, or a panic where the columns are read by row.get
from_row(row, outcome) ==
    CASE outcome = "Ok" -> Ok([c \in Columns |-> row[c]])
      [] outcome = "Err" -> Err("ColumnDecode")
      [] OTHER -> Panic

\* ------------------------------------------------------------ PostgreSQL
IsColumn(field) == Len(field) = 1 /\ field[1] \in Columns
Distinct(fields) == \A i, j \in 1..Len(fields) : fields[i] = fields[j] => i = j

\* the value of an expression of a VALUES or SET list
Eval(e, binds) == IF e.cast = "NULL" THEN Null ELSE binds[e.ph].v

PgWellFormed(fields, exprs, binds) ==
    /\ Len(fields) > 0
    /\ \A i \in 1..Len(fields) : IsColumn(fields[i])
    /\ Distinct(fields)
    /\ \A i \in 1..Len(exprs) : exprs[i].cast # "NULL" => exprs[i].ph \in 1..Len(binds)

\* INSERT INTO t (fields) VALUES (exprs) RETURNING *
PgInsertRow(q, binds, rid) ==
    [c \in Columns \cup {"rid"} |->
        IF c = "rid" THEN rid
        ELSE IF \E i \in 1..Len(q.fields) : q.fields[i] = FieldName(c)
             THEN Eval(q.values[CHOOSE i \in 1..Len(q.fields) : q.fields[i] = FieldName(c)], binds)
             ELSE Null]

\* WHERE f1 = $1 AND f2 = $2 ... : SQL equality is never true on NULL
PgMatches(row, conds, binds) ==
    \A i \in 1..Len(conds) :
        /\ row[conds[i].field[1]] # Null
        /\ binds[conds[i].ph].v # Null
        /\ row[conds[i].field[1]] = binds[conds[i].ph].v

PgFilter(row, filter) ==
    CASE filter = "unarchived" -> row["archived_at"] = Null
      [] filter = "archived" -> row["archived_at"] # Null
      [] OTHER -> TRUE

\* a WHERE clause is accepted when it has a condition, on text columns
\* (every DatabaseValue is bound as type text), with bound placeholders
PgWhereOk(conds, binds) ==
    /\ Len(conds) > 0
    /\ \A i \in 1..Len(conds) :
          /\ Len(conds[i].field) = 1
          /\ conds[i].field[1] \in TextColumns
          /\ conds[i].ph \in 1..Len(binds)

PgSelect(table, q, binds) ==
    {row \in table : PgFilter(row, q.filter) /\ PgMatches(row, q.conds, binds)}

\* --------------------------------------------- automatic field injection
\* variant: the last entry whose name contains the target is the one replaced
PositionLast(params, target) ==
    IF \E i \in 1..Len(params) : Contains(params[i].field, target)
    THEN CHOOSE i \in 1..Len(params) :
            /\ Contains(params[i].field, target)
            /\ \A j \in (i + 1)..Len(params) : ~Contains(params[j].field, target)
    ELSE 0
Position(params, target) ==
    IF \E i \in 1..Len(params) : Contains(params[i].field, target)
    THEN CHOOSE i \in 1..Len(params) :
            /\ Contains(params[i].field, target)
            /\ \A j \in 1..(i - 1) : ~Contains(params[j].field, target)
    ELSE 0

\* variant: the injected entry is always pushed, a caller's entry is left in place
InjectAppend(params, target, value) ==
    Append(params, Param(FieldName(target), value))
Inject(params, target, value) ==
    IF Position(params, target) # 0
    THEN [params EXCEPT ![Position(params, target)] = Param(FieldName(target), value)]
    ELSE Append(params, Param(FieldName(target), value))

\* variant: the generated id is pushed only when the caller supplied none
PushIdIfAbsent(r, params, id) ==
    IF has_id(r) /\ Position(params, "id") = 0
    THEN Append(params, Param(FieldName("id"), DatabaseValue("String", id)))
    ELSE params
PushId(r, params, id) ==
    IF has_id(r)
    THEN Append(params, Param(FieldName("id"), DatabaseValue("String", id)))
    ELSE params

\* variant: the three automatic fields are injected whatever the flags say
InsertParamsAllFields(r, input, id, created_at, updated_at, expires_at) ==
    Inject(Inject(Inject(PushId(r, input, id),
                         "created_at", DatabaseValue("DateTime", created_at)),
                  "updated_at", DatabaseValue("DateTime", updated_at)),
           "expires_at", DatabaseValue("DateTime", expires_at))
InsertParams(r, input, id, created_at, updated_at, expires_at) ==
    LET p1 == PushId(r, input, id)
        p2 == IF is_creatable(r)
              THEN Inject(p1, "created_at", DatabaseValue("DateTime", created_at)) ELSE p1
        p3 == IF is_updatable(r)
              THEN Inject(p2, "updated_at", DatabaseValue("DateTime", updated_at)) ELSE p2
    IN  IF is_expirable(r)
        THEN Inject(p3, "expires_at", DatabaseValue("DateTime", expires_at)) ELSE p3

\* -------------------------------------------------- statement construction
\* variant: long text is cast like short text
CastOfShortText(tag) ==
    CASE tag \in {"Str", "String", "Text"} -> "VARCHAR"
      [] tag = "DateTime" -> "TIMESTAMP"
      [] tag = "Int" -> "INTEGER"
      [] tag = "Int64" -> "BIGINT"
      [] tag = "Float" -> "FLOAT"
      [] tag = "Boolean" -> "BOOLEAN"
      [] OTHER -> "NULL"
CastOf(tag) ==
    CASE tag \in {"Str", "String"} -> "VARCHAR"
      [] tag = "Text" -> "TEXT"
      [] tag = "DateTime" -> "TIMESTAMP"
      [] tag = "Int" -> "INTEGER"
      [] tag = "Int64" -> "BIGINT"
      [] tag = "Float" -> "FLOAT"
      [] tag = "Boolean" -> "BOOLEAN"
      [] OTHER -> "NULL"

InsertValueExpr(value, i) ==
    IF value.tag = "None" THEN [cast |-> "NULL", ph |-> 0]
    ELSE [cast |-> CastOf(value.tag), ph |-> i]

InsertQuery(params) ==
    [kind |-> "INSERT",
     fields |-> [i \in 1..Len(params) |-> params[i].field],
     values |-> [i \in 1..Len(params) |-> InsertValueExpr(params[i].value, i)]]

\* variant: only the values that are present are bound
InsertBindsPresent(params) ==
    SelectSeq([i \in 1..Len(params) |-> params[i].value], LAMBDA v : v.tag # "None")
InsertBinds(params) == [i \in 1..Len(params) |-> params[i].value]


\* variant: the caller's updated_at entry is kept
UpdateParamsKeepCaller(r, input, updated_at, expires_at) ==
    LET p1 == IF is_updatable(r) /\ Position(input, "updated_at") = 0
              THEN Append(input, Param(FieldName("updated_at"), DatabaseValue("DateTime", updated_at)))
              ELSE input
    IN  IF is_expirable(r)
        THEN Inject(p1, "expires_at", DatabaseValue("DateTime", expires_at)) ELSE p1
UpdateParams(r, input, updated_at, expires_at) ==
    LET p1 == IF is_updatable(r)
              THEN Inject(input, "updated_at", DatabaseValue("DateTime", updated_at)) ELSE input
    IN  IF is_expirable(r)
        THEN Inject(p1, "expires_at", DatabaseValue("DateTime", expires_at)) ELSE p1

\* variant: the SET clause casts text values the way the VALUES clause does
UpdateSetExprAsInsert(value, i) == InsertValueExpr(value, i)
UpdateSetExpr(value, i) ==
    CASE value.tag = "None" -> [cast |-> "NULL", ph |-> 0]
      [] value.tag \in {"Str", "String", "Text"} -> [cast |-> "", ph |-> i]
      [] OTHER -> [cast |-> CastOf(value.tag), ph |-> i]

UpdateQuery(params) ==
    [kind |-> "UPDATE",
     fields |-> [i \in 1..Len(params) |-> params[i].field],
     values |-> [i \in 1..Len(params) |-> UpdateSetExpr(params[i].value, i)],
     idph |-> Len(params) + 1]

\* variant: the id is bound before the values
UpdateBindsIdFirst(params, id) ==
    <<[tag |-> "id", v |-> id]>>
    \o [i \in 1..Len(params) |->
            IF params[i].value.tag = "None" THEN [tag |-> "Option", v |-> Null]
            ELSE params[i].value]
UpdateBinds(params, id) ==
    Append([i \in 1..Len(params) |->
                IF params[i].value.tag = "None" THEN [tag |-> "Option", v |-> Null]
                ELSE params[i].value],
           [tag |-> "id", v |-> id])

Conditions(params) == [i \in 1..Len(params) |-> [field |-> params[i].field, ph |-> i]]

SelectQuery(filter, params, limit) ==
    [kind |-> "SELECT", filter |-> filter, conds |-> Conditions(params), limit |-> limit]

SelectBinds(params) == [i \in 1..Len(params) |-> params[i].value]

\* variant: the hard DELETE is issued whatever the descriptor says
DeleteStatementHard(r, params, archived_at) ==
    [kind |-> "DELETE", tsph |-> 0, conds |-> Conditions(params),
     binds |-> SelectBinds(params)]
\* variant: the soft delete is issued whatever the descriptor says
DeleteStatementSoft(r, params, archived_at) ==
    [kind |-> "ARCHIVE", tsph |-> Len(params) + 1, conds |-> Conditions(params),
     binds |-> Append(SelectBinds(params), [tag |-> "OffsetDateTime", v |-> archived_at])]
DeleteStatement(r, params, archived_at) ==
    IF is_archivable(r)
    THEN [kind |-> "ARCHIVE", tsph |-> Len(params) + 1, conds |-> Conditions(params),
          binds |-> Append(SelectBinds(params), [tag |-> "OffsetDateTime", v |-> archived_at])]
    ELSE [kind |-> "DELETE", tsph |-> 0, conds |-> Conditions(params),
          binds |-> SelectBinds(params)]

\* ------------------------------------------- PostgreSQL: UPDATE and DELETE
\* variant: the statement is accepted and changes no row
PgUpdateNothing(table, q, binds) == table
\* UPDATE t SET f = e, ... WHERE id = $n
PgUpdate(table, q, binds) ==
    {IF row["id"] # Null /\ row["id"] = binds[q.idph].v
     THEN [c \in Columns \cup {"rid"} |->
             IF \E i \in 1..Len(q.fields) : q.fields[i] = FieldName(c)
             THEN Eval(q.values[CHOOSE i \in 1..Len(q.fields) : q.fields[i] = FieldName(c)], binds)
             ELSE row[c]]
     ELSE row : row \in table}

\* DELETE FROM t WHERE ...  /  UPDATE t SET archived_at = CAST($n AS TIMESTAMP) WHERE ...
PgDelete(table, q, binds) ==
    IF q.kind = "ARCHIVE"
    THEN {IF PgMatches(row, q.conds, binds)
          THEN [row EXCEPT !["archived_at"] = binds[q.tsph].v] ELSE row : row \in table}
    ELSE {row \in table : ~PgMatches(row, q.conds, binds)}

PgDeleteOk(q, binds) ==
    /\ PgWhereOk(q.conds, binds)
    /\ q.kind = "ARCHIVE" => q.tsph \in 1..Len(binds)

\* ------------------------------------------------------------ join tables
JoinResources == {"User"}

\* format!("{}_id", camel_to_snake_case(stringify!($resource)))
JoinColumn(r) ==
    CASE r = "Authentication" -> "authentication_id"
      [] r = "UserToken" -> "user_token_id"
      [] r = "UserBackupCode" -> "user_backup_code_id"
      [] r = "User" -> "user_id"

\* the joined table: one column, named after the primary resource
SecondaryTable == {[key |-> t] : t \in 1..MaxText}

\* pluralize(&camel_to_snake_case(stringify!($resource)), 2, false)
TableName(r) ==
    CASE r = "Authentication" -> "authentications"
      [] r = "UserToken" -> "user_tokens"
      [] r = "UserBackupCode" -> "user_backup_codes"
      [] r = "User" -> "users"

\* variant: each side of ON is qualified, the joined table's name on the left
JoinQueryQualified(r, join_resource, params) ==
    [kind |-> "SELECT_JOIN", from |-> TableName(r), join |-> TableName(join_resource),
     on |-> [left |-> [table |-> TableName(join_resource),
                       column |-> JoinColumn(join_resource)],
             right |-> [table |-> TableName(r), column |-> JoinColumn(r)]],
     conds |-> Conditions(params)]
\* SELECT * FROM {from} JOIN {join} ON {left} = {right} WHERE ...: the two
\* column names are written bare, table "" is a name with no qualifier
JoinQuery(r, join_resource, params) ==
    [kind |-> "SELECT_JOIN", from |-> TableName(r), join |-> TableName(join_resource),
     on |-> [left |-> [table |-> "", column |-> JoinColumn(join_resource)],
             right |-> [table |-> "", column |-> JoinColumn(r)]],
     conds |-> Conditions(params)]

\* field.1.to_string() of a plain text value
JoinBinds(params) == [i \in 1..Len(params) |-> [tag |-> "String", v |-> params[i].value.v]]

\* ON left = right : a bare name must be a column of exactly one of the two
\* tables, a qualified one a column of the table that qualifies it
PgJoinOk(r, q, binds) ==
    /\ q.on.left.column \in Columns
    /\ q.on.left.table \in {"", q.from}
    /\ q.on.right.column = JoinColumn(r)
    /\ q.on.right.table \in {"", q.join}
    /\ PgWhereOk(q.conds, binds)

PgJoin(table, r, q, binds) ==
    {pair \in table \X SecondaryTable :
        /\ pair[1][q.on.left.column] # Null
        /\ pair[1][q.on.left.column] = pair[2].key
        /\ PgMatches(pair[1], q.conds, binds)}

\* --------------------------------------------------------- result mapping
RECURSIVE RowsInOrder(_)
RowsInOrder(rows) ==
    IF rows = {} THEN <<>>
    ELSE LET first == CHOOSE x \in rows : \A y \in rows : x["rid"] <= y["rid"]
         IN  <<first>> \o RowsInOrder(rows \ {first})

RECURSIVE PairsInOrder(_)
PairsInOrder(pairs) ==
    IF pairs = {} THEN <<>>
    ELSE LET first == CHOOSE x \in pairs : \A y \in pairs :
                          \/ x[1]["rid"] < y[1]["rid"]
                          \/ x[1]["rid"] = y[1]["rid"] /\ x[2].key <= y[2].key
         IN  <<first>> \o PairsInOrder(pairs \ {first})

NoRow == [c \in Columns \cup {"rid"} |-> Null]

\* fetch_one: the single row of the result, or RowNotFound
\* variant: an empty result is reported as an empty record
FetchOneOptional(executed, rows, row, bad) ==
    IF ~executed THEN Err("Database")
    ELSE IF rows = {} THEN Ok(NoRow)
    ELSE from_row(row, MapOutcome({row}, bad))
FetchOne(executed, rows, row, bad) ==
    IF ~executed THEN Err("Database")
    ELSE IF rows = {} THEN Err("RowNotFound")
    ELSE from_row(row, MapOutcome({row}, bad))

\* fetch_all and collect::<Result<Vec<_>, _>>(): every row mapped, or the first error
\* variant: an empty result is reported as RowNotFound
FetchAllNonEmpty(executed, rows, bad) ==
    IF ~executed THEN Err("Database")
    ELSE IF rows = {} THEN Err("RowNotFound")
    ELSE IF MapOutcome(rows, bad) # "Ok" THEN from_row(NoRow, MapOutcome(rows, bad))
    ELSE Ok([i \in 1..Cardinality(rows) |-> from_row(RowsInOrder(rows)[i], "Ok").value])
\* variant: rows that fail to map are skipped
FetchAllPartial(executed, rows, bad) ==
    IF ~executed THEN Err("Database")
    ELSE LET good == {row \in rows : row["rid"] \notin bad.rows}
         IN  Ok([i \in 1..Cardinality(good) |-> from_row(RowsInOrder(good)[i], "Ok").value])
FetchAll(executed, rows, bad) ==
    IF ~executed THEN Err("Database")
    ELSE IF MapOutcome(rows, bad) # "Ok" THEN from_row(NoRow, MapOutcome(rows, bad))
    ELSE Ok([i \in 1..Cardinality(rows) |-> from_row(RowsInOrder(rows)[i], "Ok").value])

\* fetch_all and from_row(row).unwrap() on every row
\* variant: the first mapping error is returned
JoinFetchAllCollect(executed, pairs, bad) ==
    IF ~executed THEN Err("Database")
    ELSE IF MapOutcome({pair[1] : pair \in pairs}, bad) # "Ok"
         THEN from_row(NoRow, MapOutcome({pair[1] : pair \in pairs}, bad))
    ELSE Ok([i \in 1..Cardinality(pairs) |-> from_row(PairsInOrder(pairs)[i][1], "Ok").value])
JoinFetchAll(executed, pairs, bad) ==
    IF ~executed THEN Err("Database")
    ELSE IF MapOutcome({pair[1] : pair \in pairs}, bad) # "Ok" THEN Panic
    ELSE Ok([i \in 1..Cardinality(pairs) |-> from_row(PairsInOrder(pairs)[i][1], "Ok").value])

\* -------------------------------------------------------------- call log
Stmt(kind, ok) == [kind |-> kind, ok |-> ok]

NoCall ==
    [op |-> "none", filter |-> "none", input |-> <<>>, params |-> <<>>,
     id |-> 0, ts |-> Null, pre |-> {}, stmts |-> <<>>, selected |-> {},
     result |-> Ok(<<>>), mapping |-> "Ok"]

Call(fields) == fields @@ NoCall

\* ------------------------------------------------------------------ Init
Init ==
    /\ resource \in Resources
    /\ db = {}
    /\ now = 0
    /\ uuid = 0
    /\ issued = <<>>
    /\ last = NoCall

\* no call is in progress: the last result has been taken by its caller
Idle == last.op = "none"

\* the awaited call completes and its result is consumed by the caller
Return ==
    /\ ~Idle
    /\ last' = NoCall
    /\ UNCHANGED <<resource, db, now, uuid, issued>>

\* the wall clock advances
Tick ==
    /\ Idle
    /\ now < MaxTime
    /\ now' = now + 1
    /\ UNCHANGED <<resource, db, uuid, issued, last>>

\* ------------------------------------------------------- insert_resource!
\* variant: the row mapping is returned whether or not the statement ran
InsertResultUnchecked(executed, row, outcome) == from_row(row, outcome)
InsertResult(executed, row, outcome) ==
    IF executed THEN from_row(row, outcome) ELSE Err("Database")

insert_resource ==
    /\ Idle
    /\ uuid < MaxIds
    /\ \E input \in ParamLists, t2 \in ClockReads(now), stmtOk \in BOOLEAN :
        LET id == uuid + 1
            created_at == now
            updated_at == created_at
            expires_at == t2 + ExpireDays
            params == InsertParams(resource, input, id, created_at, updated_at, expires_at)
            query == InsertQuery(params)
            binds == InsertBinds(params)
            executed == stmtOk /\ PgWellFormed(query.fields, query.values, binds)
            row == PgInsertRow(query, binds, id)
        IN  /\ db' = IF executed THEN db \cup {row} ELSE db
            /\ uuid' = id
            /\ issued' = IF executed THEN Append(issued, row["id"]) ELSE issued
            /\ now' = t2
            /\ \E outcome \in (IF executed THEN {"Ok"} \cup MapFailures ELSE {"Ok"}) :
                  last' = Call([op |-> "insert", input |-> input, params |-> params,
                                id |-> id, ts |-> created_at, pre |-> db,
                                stmts |-> <<Stmt("INSERT", executed)>>,
                                result |-> InsertResult(executed, row, outcome),
                                mapping |-> outcome])
            /\ UNCHANGED resource

\* --------------------------------------------------------------- find-one
FindOne(filter) ==
    /\ Idle
    /\ \E input \in ConditionLists, stmtOk \in BOOLEAN :
        LET query == SelectQuery(filter, input, 1)
            binds == SelectBinds(input)
            executed == stmtOk /\ PgWhereOk(query.conds, binds)
            rows == IF executed THEN PgSelect(db, query, binds) ELSE {}
        IN  \E row \in (IF rows = {} THEN {NoRow} ELSE rows), bad \in BadRows(rows) :
                last' = Call([op |-> "find_one", filter |-> filter,
                              input |-> input, params |-> input, pre |-> db,
                              stmts |-> <<Stmt("SELECT", executed)>>, selected |-> rows,
                              result |-> FetchOne(executed, rows, row, bad),
                              mapping |-> MapOutcome({row}, bad)])
    /\ UNCHANGED <<resource, db, now, uuid, issued>>

find_one_resource_where_fields == FindOne("none")
find_one_unarchived_resource_where_fields == FindOne("unarchived")
find_one_archived_resource_where_fields == FindOne("archived")

\* --------------------------------------------------------------- find-all
FindAll(filter) ==
    /\ Idle
    /\ \E input \in ConditionLists, stmtOk \in BOOLEAN :
        LET query == SelectQuery(filter, input, 0)
            binds == SelectBinds(input)
            executed == stmtOk /\ PgWhereOk(query.conds, binds)
            rows == IF executed THEN PgSelect(db, query, binds) ELSE {}
        IN  \E bad \in BadRows(rows) :
                last' = Call([op |-> "find_all", filter |-> filter,
                              input |-> input, params |-> input, pre |-> db,
                              stmts |-> <<Stmt("SELECT", executed)>>, selected |-> rows,
                              result |-> FetchAll(executed, rows, bad),
                              mapping |-> MapOutcome(rows, bad)])
    /\ UNCHANGED <<resource, db, now, uuid, issued>>

find_all_resources_where_fields == FindAll("none")
find_all_unarchived_resources_where_fields == FindAll("unarchived")
find_all_archived_resources_where_fields == FindAll("archived")

\* ------------------------------------------- delete_resource_where_fields!
delete_resource_where_fields ==
    /\ Idle
    /\ \E input \in ConditionLists, stmtOk \in BOOLEAN :
        LET archived_at == now
            query == DeleteStatement(resource, input, archived_at)
            executed == stmtOk /\ PgDeleteOk(query, query.binds)
            after == IF executed THEN PgDelete(db, query, query.binds) ELSE db
        IN  /\ db' = after
            /\ last' = Call([op |-> "delete", input |-> input, params |-> input,
                             ts |-> archived_at, pre |-> db,
                             stmts |-> <<Stmt(query.kind, executed)>>,
                             result |-> IF executed THEN Ok(<<>>) ELSE Err("Database")])
    /\ UNCHANGED <<resource, now, uuid, issued>>

\* ------------------------------------------------------- update_resource!
\* variant: the follow-up lookup is issued even when the UPDATE failed
UpdateProceedsAlways(executed) == TRUE
\* Ok(_) => (), Err(e) => return Err(e)
UpdateProceeds(executed) == executed

\* variant: a lookup that finds nothing is reported as success
UpdateReturnLenient(found) == IF found.kind = "Err" THEN Ok(NoRow) ELSE found
\* Ok(resource) => Ok(resource), Err(e) => Err(e)
UpdateReturn(found) == found

\* the UPDATE, then find_one_resource_where_fields!($resource, vec![("id", &$id)])
update_resource ==
    /\ Idle
    /\ \E id \in 1..MaxIds, input \in UpdateLists, t2 \in ClockReads(now),
          stmtOk \in BOOLEAN, findOk \in BOOLEAN :
        LET updated_at == now
            expires_at == t2 + ExpireDays
            params == UpdateParams(resource, input, updated_at, expires_at)
            query == UpdateQuery(params)
            binds == UpdateBinds(params, id)
            executed == /\ stmtOk
                        /\ PgWellFormed(query.fields, query.values, binds)
                        /\ query.idph \in 1..Len(binds)
            after == IF executed THEN PgUpdate(db, query, binds) ELSE db
            find_params == <<Param(FieldName("id"), [tag |-> "id", v |-> id])>>
            find_query == SelectQuery("none", find_params, 1)
            find_binds == SelectBinds(find_params)
            found == findOk /\ PgWhereOk(find_query.conds, find_binds)
            rows == IF found THEN PgSelect(after, find_query, find_binds) ELSE {}
            rec == Call([op |-> "update", input |-> input, params |-> params,
                         id |-> id, ts |-> updated_at, pre |-> db])
        IN  /\ db' = after
            /\ now' = t2
            /\ IF UpdateProceeds(executed)
               THEN \E row \in (IF rows = {} THEN {NoRow} ELSE rows), bad \in BadRows(rows) :
                      last' = [rec EXCEPT
                                 !.stmts = <<Stmt("UPDATE", executed), Stmt("SELECT", found)>>,
                                 !.selected = rows,
                                 !.result = UpdateReturn(FetchOne(found, rows, row, bad)),
                                 !.mapping = MapOutcome({row}, bad)]
               ELSE /\ findOk      \* no lookup is issued: its outcome is left out
                    /\ last' = [rec EXCEPT !.stmts = <<Stmt("UPDATE", executed)>>,
                                           !.result = Err("Database")]
    /\ UNCHANGED <<resource, uuid, issued>>

\* --------------------------------------- join_all_resources_where_fields_on!
join_all_resources_where_fields_on ==
    /\ Idle
    /\ \E join_resource \in JoinResources, input \in ConditionLists,
          stmtOk \in BOOLEAN :
        LET query == JoinQuery(resource, join_resource, input)
            binds == JoinBinds(input)
            executed == stmtOk /\ PgJoinOk(resource, query, binds)
            pairs == IF executed THEN PgJoin(db, resource, query, binds) ELSE {}
        IN  \E bad \in BadRows({pair[1] : pair \in pairs}) :
                last' = Call([op |-> "join", input |-> input, params |-> input,
                              pre |-> db, stmts |-> <<Stmt("SELECT_JOIN", executed)>>,
                              selected |-> pairs,
                              result |-> JoinFetchAll(executed, pairs, bad),
                              mapping |-> MapOutcome({pair[1] : pair \in pairs}, bad)])
    /\ UNCHANGED <<resource, db, now, uuid, issued>>

Next ==
    \/ Tick
    \/ Return
    \/ insert_resource
    \/ find_one_resource_where_fields
    \/ find_one_unarchived_resource_where_fields
    \/ find_one_archived_resource_where_fields
    \/ find_all_resources_where_fields
    \/ find_all_unarchived_resources_where_fields
    \/ find_all_archived_resources_where_fields
    \/ delete_resource_where_fields
    \/ update_resource
    \/ join_all_resources_where_fields_on

Spec == Init /\ [][Next]_vars

\* =================================================================== claims
IsErr(result, e) == result.kind = "Err" /\ result.value = e
Columns_of(row) == [c \in Columns |-> row[c]]

\* the row satisfies every equality condition (SQL equality) and the archival filter
Satisfies(row, filter, conds) ==
    /\ filter = "unarchived" => row["archived_at"] = Null
    /\ filter = "archived" => row["archived_at"] # Null
    /\ \A i \in 1..Len(conds) :
          /\ conds[i].value.v # Null
          /\ row[conds[i].field[1]] = conds[i].value.v

\* the rows a find-one / find-all of the given variant selects in a table
Found(table, filter, conds) ==
    PgSelect(table, SelectQuery(filter, conds, 0), SelectBinds(conds))

ById(id) == <<Param(FieldName("id"), [tag |-> "id", v |-> id])>>
Filters == {"none", "unarchived", "archived"}

\* C1: whenever insert_resource returns Ok, that call added exactly one new row to
\* the table (no other row added, changed or removed) and the returned record is
\* the mapping of that row.
C1_InsertAddsExactlyOneRow ==
    (last.op = "insert" /\ last.result.kind = "Ok") =>
        \E row \in db :
            /\ row \notin last.pre
            /\ db = last.pre \cup {row}
            /\ last.result.value = Columns_of(row)

C1_Witness ==
    /\ last.op = "insert"
    /\ last.result.kind = "Ok"
    /\ last.pre # {}
    /\ Len(last.input) > 0

\* C2: every insert_resource call draws a fresh identifier and puts it in the field
\* list under `id` whatever the caller supplied, and the rows produced by any two
\* inserts carry distinct `id` values.
C2_InsertedIdsDistinct ==
    /\ \A i, j \in 1..Len(issued) : issued[i] = issued[j] => i = j
    /\ (last.op = "insert" /\ has_id(resource)) =>
          /\ \E i \in 1..Len(last.params) :
                last.params[i] = Param(FieldName("id"), DatabaseValue("String", last.id))
          /\ \A row \in last.pre : row["rid"] # last.id
          /\ last.stmts[1].ok => issued[Len(issued)] = last.id

C2_Witness ==
    /\ Len(issued) = 2
    /\ last.op = "insert"
    /\ last.stmts[1].ok

\* C3: after a successful update_resource on an existing id (no other writer), a
\* find-one by the same id returns a record whose SET fields carry exactly the
\* values set, whose other columns are as before the update, and whose updated_at
\* (updatable type) is not earlier than before the update.
C3_UpdateThenFindOne ==
    (last.op = "update" /\ last.result.kind = "Ok") =>
        /\ Found(db, "none", ById(last.id)) # {}
        /\ \A row \in Found(db, "none", ById(last.id)) :
              /\ FetchOne(TRUE, Found(db, "none", ById(last.id)), row, NoBad) = Ok(Columns_of(row))
              /\ \A i \in 1..Len(last.params) :
                    row[last.params[i].field[1]] = last.params[i].value.v
              /\ \E before \in last.pre :
                    /\ before["rid"] = row["rid"]
                    /\ before["id"] = last.id
                    /\ \A c \in Columns :
                          (\A i \in 1..Len(last.params) : last.params[i].field # FieldName(c))
                              => row[c] = before[c]
                    /\ is_updatable(resource) => row["updated_at"] >= before["updated_at"]

C3_Witness ==
    /\ last.op = "update"
    /\ last.result.kind = "Ok"
    /\ Len(last.input) > 0
    /\ \E before \in last.pre : before["id"] = last.id /\ before["updated_at"] < now

\* C4: update_resource with an id that matches no row: the UPDATE is executed
\* without error, the follow-up find-one by id fails with RowNotFound, and every
\* row of the table is unchanged.
C4_UpdateOfMissingId ==
    (last.op = "update" /\ \A row \in last.pre : row["id"] # last.id) =>
        /\ db = last.pre
        /\ last.result.kind = "Err"
        /\ last.stmts[1].ok =>
              /\ Len(last.stmts) = 2
              /\ last.stmts[2].kind = "SELECT"
              /\ last.stmts[2].ok => IsErr(last.result, "RowNotFound")

C4_Witness ==
    /\ last.op = "update"
    /\ last.pre # {}
    /\ \A row \in last.pre : row["id"] # last.id
    /\ last.stmts[1].ok
    /\ IsErr(last.result, "RowNotFound")

\* C5: a find-one of any variant with a non-empty condition list whose statement
\* the database executes returns RowNotFound exactly when no row satisfies all
\* the conditions and the variant's archival filter; otherwise it returns one row
\* that satisfies all of them.
C5_FindOne ==
    (last.op = "find_one" /\ Len(last.input) > 0) =>
        /\ last.result.kind = "Ok" => last.stmts[1].ok
        /\ IsErr(last.result, "RowNotFound") => last.stmts[1].ok
        /\ last.stmts[1].ok =>
              LET sat == {row \in db : Satisfies(row, last.filter, last.input)}
              IN  /\ IsErr(last.result, "RowNotFound") <=> sat = {}
                  /\ last.result.kind = "Ok" =>
                        \E row \in sat : last.result.value = Columns_of(row)
                  /\ (sat # {} /\ last.mapping = "Ok") => last.result.kind = "Ok"

C5_Witness ==
    /\ last.op = "find_one"
    /\ last.filter = "unarchived"
    /\ last.result.kind = "Ok"
    /\ \E row \in db : ~Satisfies(row, last.filter, last.input)

\* C6: a find-all of any variant whose conditions match zero rows returns Ok with
\* an empty sequence, not an error; when rows match, an Ok result holds exactly
\* the rows satisfying all the conditions.
C6_FindAll ==
    (last.op = "find_all" /\ last.stmts[1].ok) =>
        LET sat == {row \in db : Satisfies(row, last.filter, last.input)}
        IN  /\ sat = {} => (last.result.kind = "Ok" /\ last.result.value = <<>>)
            /\ last.result.kind = "Ok" =>
                  /\ Len(last.result.value) = Cardinality(sat)
                  /\ \A row \in sat : \E i \in 1..Len(last.result.value) :
                        last.result.value[i] = Columns_of(RowsInOrder(sat)[i])
                           /\ RowsInOrder(sat)[i] = row
            /\ last.result.kind # "Ok" => last.mapping # "Ok"

C6_Witness ==
    /\ last.op = "find_all"
    /\ last.stmts[1].ok
    /\ db # {}
    /\ last.selected = {}
    /\ last.result.kind = "Ok"

\* C7: on a type that is not archivable, a successful delete_resource_where_fields
\* removes every row matching the conditions and no other row, and a find-one of
\* any variant with the same conditions then returns RowNotFound.
C7_HardDelete ==
    (last.op = "delete" /\ ~is_archivable(resource) /\ last.result.kind = "Ok") =>
        /\ db = {row \in last.pre : ~Satisfies(row, "none", last.input)}
        /\ \A filter \in Filters :
              IsErr(FetchOne(TRUE, Found(db, filter, last.input), NoRow, NoBad), "RowNotFound")

C7_Witness ==
    /\ last.op = "delete"
    /\ ~is_archivable(resource)
    /\ last.result.kind = "Ok"
    /\ db # {}
    /\ db # last.pre

\* C8: on an archivable type, a successful delete_resource_where_fields removes no
\* row; it sets archived_at to the current time on every matching row (and changes
\* nothing else), so each such row is selected by the archived find variants and
\* by none of the unarchived ones for the same conditions.
C8_SoftDelete ==
    (last.op = "delete" /\ is_archivable(resource) /\ last.result.kind = "Ok") =>
        /\ last.ts = now
        /\ Cardinality(db) = Cardinality(last.pre)
        /\ \A row \in last.pre :
              IF Satisfies(row, "none", last.input)
              THEN /\ [row EXCEPT !["archived_at"] = now] \in db
                   /\ [row EXCEPT !["archived_at"] = now] \in Found(db, "archived", last.input)
                   /\ [row EXCEPT !["archived_at"] = now] \in Found(db, "none", last.input)
                   /\ \A other \in Found(db, "unarchived", last.input) :
                         other["rid"] # row["rid"]
              ELSE row \in db

C8_Witness ==
    /\ last.op = "delete"
    /\ is_archivable(resource)
    /\ last.result.kind = "Ok"
    /\ \E row \in last.pre : Satisfies(row, "none", last.input) /\ row["archived_at"] = Null
    /\ \E row \in last.pre : ~Satisfies(row, "none", last.input)

\* a statement of the call failed, from_row returned an error, or a single-row
\* fetch was empty
Failed ==
    \/ \E i \in 1..Len(last.stmts) : ~last.stmts[i].ok
    \/ last.mapping = "Err"
    \/ last.op \in {"find_one", "update"} /\ last.selected = {}

NoPartialResult ==
    (last.op \in {"find_all", "join"} /\ last.result.kind = "Ok") =>
        Len(last.result.value) = Cardinality(last.selected)

JoinMappingFailure ==
    /\ last.op = "join"
    /\ last.stmts[1].ok
    /\ last.mapping = "Err"

C10_NoRetry ==
    last.op # "none" =>
        /\ Len(last.stmts) >= 1
        /\ last.op # "update" => Len(last.stmts) = 1
        /\ last.op = "update" =>
              /\ Len(last.stmts) <= 2
              /\ last.stmts[1].kind = "UPDATE"
              /\ Len(last.stmts) = 2 => last.stmts[2].kind = "SELECT"
              /\ last.stmts[1].ok => Len(last.stmts) = 2
        /\ \A i \in 1..Len(last.stmts) : ~last.stmts[i].ok =>
              /\ i = Len(last.stmts)
              /\ last.result.kind = "Err"

C10_Witness ==
    /\ last.op = "update"
    /\ Len(last.stmts) = 2
    /\ ~last.stmts[2].ok
    /\ last.result.kind = "Err"
    /\ db # last.pre

\* ------------------------------------------------ automatic fields (C19, C20)
AutoFields == {"created_at", "updated_at", "expires_at"}

\* the caller's list has an entry whose name contains the target
Supplied(input, target) == \E i \in 1..Len(input) : Contains(input[i].field, target)

\* the entries of a field list that carry the target's name
Named(params, target) == {i \in 1..Len(params) : params[i].field = FieldName(target)}

\* C19: in insert_resource, for the names the caller did not supply, the final
\* field list has a created_at entry iff is_creatable, an updated_at entry iff
\* is_updatable and an expires_at entry iff is_expirable; created_at and
\* updated_at carry the same instant, read during the call, and expires_at is an
\* instant read during the call plus 30 days.
C19_AutomaticFields ==
    last.op = "insert" =>
        /\ ~Supplied(last.input, "created_at") =>
              Cardinality(Named(last.params, "created_at")) =
                  (IF is_creatable(resource) THEN 1 ELSE 0)
        /\ ~Supplied(last.input, "updated_at") =>
              Cardinality(Named(last.params, "updated_at")) =
                  (IF is_updatable(resource) THEN 1 ELSE 0)
        /\ ~Supplied(last.input, "expires_at") =>
              Cardinality(Named(last.params, "expires_at")) =
                  (IF is_expirable(resource) THEN 1 ELSE 0)
        /\ is_creatable(resource) =>
              \A i \in Named(last.params, "created_at") :
                  last.params[i].value = DatabaseValue("DateTime", last.ts)
        /\ is_updatable(resource) =>
              \A i \in Named(last.params, "updated_at") :
                  last.params[i].value = DatabaseValue("DateTime", last.ts)
        /\ is_expirable(resource) =>
              \A i \in Named(last.params, "expires_at") :
                  /\ last.params[i].value = DatabaseValue("DateTime", now + ExpireDays)
                  /\ last.ts <= now

C19_Witness ==
    /\ last.op = "insert"
    /\ resource = "Authentication"
    /\ \A target \in AutoFields : ~Supplied(last.input, target)
    /\ Len(last.input) > 0
    /\ last.ts < now
    /\ last.stmts[1].ok

\* ------------------------------------ the injection step on any field list
\* Field lists a caller can write: names may repeat, a name may contain a
\* target as a part of it ("old_created_at") or contain two targets, and a
\* value may carry any tag of DatabaseValue.
InjectEntries ==
    {Param(name, DatabaseValue("DateTime", 0)) :
        name \in {FieldName("created_at"), <<"old", "created_at">>,
                  FieldName("updated_at"), FieldName("expires_at"),
                  <<"created_at", "updated_at">>}}
    \cup {Param(FieldName("user_id"), DatabaseValue(tag, 1)) : tag \in Tags \ {"None"}}
    \cup {Param(FieldName("user_id"), DbNone)}

InjectLists == UNION {[1..n -> InjectEntries] : n \in 0..MaxFields}

InitInject ==
    /\ resource \in Resources
    /\ db = {}
    /\ now \in 0..MaxTime
    /\ uuid = 0
    /\ issued = <<>>
    /\ \E input \in InjectLists : last = Call([input |-> input])

\* insert_resource!, up to the statement and its bound parameters
insert_resource_params ==
    /\ Idle
    /\ LET id == uuid + 1
           created_at == now
           updated_at == created_at
           expires_at == now + ExpireDays
           params == InsertParams(resource, last.input, id, created_at,
                                  updated_at, expires_at)
       IN  last' = [query |-> InsertQuery(params), binds |-> InsertBinds(params)]
                   @@ [last EXCEPT !.op = "insert_params", !.id = id,
                                   !.ts = created_at, !.params = params]
    /\ UNCHANGED <<resource, db, now, uuid, issued>>

\* update_resource!, up to the statement and its bound parameters
update_resource_params ==
    /\ Idle
    /\ \E id \in 1..MaxIds :
        LET updated_at == now
            expires_at == now + ExpireDays
            params == UpdateParams(resource, last.input, updated_at, expires_at)
        IN  last' = [query |-> UpdateQuery(params), binds |-> UpdateBinds(params, id)]
                    @@ [last EXCEPT !.op = "update_params", !.id = id,
                                    !.ts = updated_at, !.params = params]
    /\ UNCHANGED <<resource, db, now, uuid, issued>>

NextInject ==
    \/ insert_resource_params
    \/ update_resource_params

SpecInject == InitInject /\ [][NextInject]_vars

\* the entries of a field list whose name contains the target
Referring(params, target) == {i \in 1..Len(params) : Contains(params[i].field, target)}

\* the value the injection step gives the target, Null where it injects nothing
Injected(op, target) ==
    CASE target = "created_at" /\ op = "insert_params" /\ is_creatable(resource) -> now
      [] target = "updated_at" /\ is_updatable(resource) -> now
      [] target = "expires_at" /\ is_expirable(resource) -> now + ExpireDays
      [] OTHER -> Null

\* C20 as stated: after the injection step of insert or update at most one
\* entry refers to each of created_at, updated_at and expires_at, for every
\* field list of the caller.
C20_Original ==
    last.op \in {"insert_params", "update_params"} =>
        \A target \in AutoFields : Cardinality(Referring(last.params, target)) <= 1

\* C20, amended: for every field list of the caller in which at most one entry
\* has a name containing the target, at most one entry refers to the target
\* after the injection step, and where the step injects the target that entry is
\* the injected one: the caller's entry is overwritten, not left alongside it.
C20_AtMostOneEntry ==
    last.op \in {"insert_params", "update_params"} =>
        \A target \in AutoFields :
            Cardinality(Referring(last.input, target)) <= 1 =>
                /\ Cardinality(Referring(last.params, target)) <= 1
                /\ Injected(last.op, target) # Null =>
                      \E i \in 1..Len(last.params) :
                          /\ Referring(last.params, target) = {i}
                          /\ last.params[i] =
                                Param(FieldName(target),
                                      DatabaseValue("DateTime", Injected(last.op, target)))

C20_Witness ==
    /\ last.op = "update_params"
    /\ resource = "Authentication"
    /\ now > 0
    /\ Len(last.input) = MaxFields
    /\ \A target \in {"updated_at", "expires_at"} :
          Cardinality(Referring(last.input, target)) = 1
    /\ Len(last.params) = Len(last.input)

\* ===================================================================== API
\* The handlers of api/authentications.rs and api/token.rs over the three tables
\* they use.  In the specifications of this part db is the record of the tables,
\* now the instant the wall clock shows, uuid the number of UUIDs drawn so far,
\* issued the session tokens handed out and last the call in progress.

\* instants per UTC day
TicksPerDay == 2
Days(n) == n * TicksPerDay

\* the instants at which calls are made: the first ones, and those around the
\* end of the lifetime of a session created at one of the first ones
Instants == {first + k : first \in {0, Days(ExpireDays) - 1}, k \in 0..(MaxTime + 1)}

\* The two texts of an instant, as the date, the character after it (by its
\* ASCII code) and the time of day.
\* OffsetDateTime's Display: "YYYY-MM-DD H:MM:SS.f +00:00:00", 32 is " "
to_string(t) == <<t \div TicksPerDay, 32, t % TicksPerDay>>
\* format(&Rfc3339): "YYYY-MM-DDTHH:MM:SSZ", 84 is "T"
format_rfc3339(t) == <<t \div TicksPerDay, 84, t % TicksPerDay>>

\* String's <: the first differing position decides, a proper prefix is smaller
StrLess(a, b) ==
    \/ \E i \in 1..Len(a) : /\ i <= Len(b)
                            /\ a[i] < b[i]
                            /\ \A j \in 1..(i - 1) : a[j] = b[j]
    \/ /\ Len(a) < Len(b)
       /\ \A j \in 1..Len(a) : a[j] = b[j]

\* format!("{:x}", Sha256::digest(password)): distinct passwords, distinct hashes
Sha256Hex(password) == <<"sha256", password>>

EmptyDb == [table \in {"users", "authentications", "user_backup_codes"} |-> {}]
UserColumns == {"id", "username", "user_password"}
AuthenticationColumns ==
    {"id", "user_id", "token", "expires_at", "created_at", "updated_at", "archived_at"}
UserBackupCodeColumns == {"id", "user_id", "code", "used", "archived_at"}

\* what requests carry: user names and passwords, and tokens; the Authorization
\* header without a token gives the empty string
Usernames == 1..(MaxText + 1)
Passwords == 1..(MaxText + 1)
EmptyToken == 0

\* the row a field list makes, over the columns the handlers read: a column
\* without an entry takes the default
RowOf(columns, params, default) ==
    [c \in columns |->
        IF \E i \in 1..Len(params) : params[i].field = FieldName(c)
        THEN (CHOOSE p \in {params[i] : i \in 1..Len(params)} : p.field = FieldName(c)).value.v
        ELSE default[c]]

\* an error result of the API layer, and serde_json::json!(null)
Error(e) == [kind |-> "Err", value |-> [error |-> e]]
JsonNull == [json |-> "null"]

\* WHERE column = value for every pair of the condition
Matching(table, cond) == {row \in table : \A c \in DOMAIN cond : row[c] = cond[c]}

\* find_one_resource_where_fields!: one of the matching rows, RowNotFound when
\* there is none, the statement's error when it does not execute
FindOneIn(table, cond, executed) ==
    IF ~executed THEN {Error("Database")}
    ELSE IF Matching(table, cond) = {} THEN {Error("RowNotFound")}
    ELSE {Ok(row) : row \in Matching(table, cond)}

\* the statement log of a lookup
Lookup(result) == Stmt("SELECT", ~(result.kind = "Err" /\ result.value.error = "Database"))

\* insert_resource! for Authentication: the row it adds
NewAuthentication(id, user_id, token, t) ==
    RowOf(AuthenticationColumns,
          InsertParams("Authentication",
                       <<Param(FieldName("user_id"), DatabaseValue("String", user_id)),
                         Param(FieldName("token"), DatabaseValue("String", token))>>,
                       id, t, t, t + Days(ExpireDays)),
          [c \in AuthenticationColumns |-> Null])

\* update_resource!: UPDATE ... SET field = value, ... WHERE id = $n, then the
\* lookup by id; each may fail
UpdateOutcomes == {"ok", "update_fails", "find_fails"}
UpdateResource(columns, table, id, params, outcome) ==
    LET after == IF outcome = "update_fails" THEN table
                 ELSE {IF row.id = id THEN RowOf(columns, params, row) ELSE row :
                         row \in table}
    IN  {[table |-> after, result |-> UpdateReturn(found)] :
            found \in FindOneIn(after, [id |-> id], outcome = "ok")}

\* ------------------------------------------------------------ responses
\* AuthenticationResponse::success and ::error under their HTTP status
Success(data, message) == [status |-> 200, error |-> "none", data |-> data, message |-> message]
Failure(status, error) == [status |-> status, error |-> error, data |-> JsonNull, message |-> "none"]

\* ------------------------------------------------------------ api/token.rs
\* expires_at.is_none() || expires_at.to_string() < now_utc().format(&Rfc3339)
Expired(expires_at, t) ==
    \/ expires_at = Null
    \/ StrLess(to_string(expires_at), format_rfc3339(t))

\* every way a lookup can turn out
FindOne_(table, cond) == UNION {FindOneIn(table, cond, executed) : executed \in BOOLEAN}

\* VerifiedToken::from_raw
from_raw(table, t, raw) ==
    {[result |-> IF found.kind = "Err" THEN Error("InvalidToken")
                 ELSE IF Expired(found.value.expires_at, t) THEN Error("TokenExpired")
                 ELSE Ok([raw_token |-> raw, user_id |-> found.value.user_id,
                          expires_at |-> found.value.expires_at]),
      stmts |-> <<Lookup(found)>>] : found \in FindOne_(table, [token |-> raw])}

\* validate_token: no lookup for the empty token, and every error of from_raw
\* becomes InvalidToken
ValidateToken(table, t, token) ==
    IF token = EmptyToken
    THEN {[result |-> Error("SessionNotFound"), stmts |-> <<>>]}
    ELSE {[result |-> IF verified.result.kind = "Ok" THEN verified.result
                      ELSE Error("InvalidToken"),
           stmts |-> verified.stmts] : verified \in from_raw(table, t, token)}

\* ---------------------------------------------------------------- logout
\* variant: the rows are archived whatever the type says
DeleteWhereArchive(r, table, cond, t) ==
    {IF row \in Matching(table, cond) THEN [row EXCEPT !.archived_at = t] ELSE row :
        row \in table}
\* delete_resource_where_fields!: archivable types are archived, the others deleted
DeleteWhere(r, table, cond, t) ==
    IF is_archivable(r)
    THEN {IF row \in Matching(table, cond) THEN [row EXCEPT !.archived_at = t] ELSE row :
            row \in table}
    ELSE table \ Matching(table, cond)

LogoutOutcomes(d, t, token) ==
    UNION {IF verified.result.kind = "Err"
           THEN {[db |-> d, reply |-> Failure(400, "InvalidToken"), stmts |-> verified.stmts]}
           ELSE {[db |-> IF executed
                         THEN [d EXCEPT !.authentications =
                                 DeleteWhere("Authentication", @,
                                             [token |-> verified.result.value.raw_token], t)]
                         ELSE d,
                  reply |-> IF executed THEN Success(JsonNull, "Logged out successfully")
                            ELSE Failure(400, "SessionNotFound"),
                  stmts |-> Append(verified.stmts, Stmt("DELETE", executed))] :
                    executed \in BOOLEAN} :
           verified \in ValidateToken(d.authentications, t, token)}

\* ----------------------------------------------------------------- login
\* the session exists: its JSON is taken, then its expiration is extended
ExtendSession(d, u, t, authentication, stmts) ==
    LET auth_id == authentication.id
        auth_value == authentication
        params == UpdateParams("Authentication",
                               <<Param(FieldName("expires_at"),
                                       DatabaseValue("DateTime", t + Days(ExpireDays)))>>,
                               t, t + Days(ExpireDays))
    IN  UNION {{[db |-> [d EXCEPT !.authentications = updated.table], uuid |-> u,
                 reply |-> IF updated.result.kind = "Ok" THEN Success(auth_value, "none")
                           ELSE Failure(500, "SessionUpdateFailed"),
                 stmts |-> Append(stmts, Stmt("UPDATE", outcome # "update_fails")),
                 path |-> "extended", token |-> EmptyToken] :
                   updated \in UpdateResource(AuthenticationColumns, d.authentications,
                                              auth_id, params, outcome)} :
               outcome \in UpdateOutcomes}

\* no session was found: one is inserted under a fresh token
CreateSession(d, u, t, user_id, stmts) ==
    LET token == u + 1
        id == u + 2
        authentication == NewAuthentication(id, user_id, token, t)
    IN  {[db |-> IF executed
                 THEN [d EXCEPT !.authentications = @ \cup {authentication}] ELSE d,
          uuid |-> id,
          reply |-> IF executed THEN Success(authentication, "none")
                    ELSE Failure(500, "SessionCreationFailed"),
          stmts |-> Append(stmts, Stmt("INSERT", executed)),
          path |-> "created", token |-> IF executed THEN token ELSE EmptyToken] :
            executed \in BOOLEAN}

LoginOutcomes(d, u, t, username, password) ==
    LET hashed_password == Sha256Hex(password)
        login_params == [username |-> username, user_password |-> hashed_password]
    IN  UNION {IF user.kind = "Err"
               THEN {[db |-> d, uuid |-> u, reply |-> Failure(404, "UserNotFound"),
                      stmts |-> <<Lookup(user)>>, path |-> "rejected",
                      token |-> EmptyToken]}
               ELSE UNION {IF found.kind = "Ok"
                           THEN ExtendSession(d, u, t, found.value,
                                              <<Lookup(user), Lookup(found)>>)
                           ELSE CreateSession(d, u, t, user.value.id,
                                              <<Lookup(user), Lookup(found)>>) :
                           found \in FindOne_(d.authentications,
                                              [user_id |-> user.value.id])} :
               user \in FindOne_(d.users, login_params)}

\* ------------------------------------------------- utils/backup_codes.rs
\* for _ in 0..10
CodeCount == 10
\* draws of one batch that repeat a code drawn earlier in the batch
MaxRepeats == 1

Range(s) == {s[i] : i \in 1..Len(s)}
StoredCodes(table) == {row.code : row \in table}

\* generate_code(): the hash of a random number and the second of the clock is
\* a code the table holds, a code drawn earlier in the batch, or a new one; codes
\* are named by numbers and a new one takes the first number free
generate_code(table, codes) ==
    LET known == StoredCodes(table) \cup Range(codes)
        repeats == Len(codes) - Cardinality(Range(codes))
    IN  StoredCodes(table)
        \cup (IF repeats < MaxRepeats THEN Range(codes) ELSE {})
        \cup {CHOOSE c \in 1..(Cardinality(known) + 1) :
                 c \notin known /\ \A e \in 1..(c - 1) : e \in known}

\* generate_backup_code(): the codes it can return, those for which the lookup
\* in the table ran and found nothing
Accepted(table, codes) ==
    {code \in generate_code(table, codes) : code \notin StoredCodes(table)}

\* generate_backup_codes(): the batches of n codes it can return
RECURSIVE GenerateBackupCodes(_, _)
GenerateBackupCodes(table, n) ==
    IF n = 0 THEN {<<>>}
    ELSE UNION {{Append(codes, code) : code \in Accepted(table, codes)} :
                  codes \in GenerateBackupCodes(table, n - 1)}

\* -------------------------------------------------------------- register
NewUser(id, username, password, t) ==
    RowOf(UserColumns,
          InsertParams("User",
                       <<Param(FieldName("username"), DatabaseValue("String", username)),
                         Param(FieldName("user_password"),
                               DatabaseValue("String", Sha256Hex(password)))>>,
                       id, t, t, t + Days(ExpireDays)),
          [c \in UserColumns |-> Null])

\* insert_resource! for UserBackupCode, over the columns the handlers read: a
\* new backup code is unused
NewUserBackupCode(id, user_id, code) ==
    [id |-> id, user_id |-> user_id, code |-> code, used |-> FALSE, archived_at |-> Null]

\* the loop over the batch: the inserts run in order and the first that fails
\* ends the request (failed = 0: none fails)
InsertCodes(d, u, t, user, backup_codes, failed, stmts) ==
    LET done == IF failed = 0 THEN Len(backup_codes) ELSE failed - 1
        tried == IF failed = 0 THEN Len(backup_codes) ELSE failed
        rows == {NewUserBackupCode(u + i, user.id, backup_codes[i]) : i \in 1..done}
    IN  [db |-> [d EXCEPT !.user_backup_codes = @ \cup rows],
         uuid |-> u + tried,
         reply |-> IF failed = 0
                   THEN Success([user |-> user, backup_codes |-> backup_codes],
                                "User created successfully")
                   ELSE Failure(400, "CodeCreationFailed"),
         stmts |-> stmts \o [i \in 1..tried |-> Stmt("INSERT", i # failed)]]

\* variant: the name is never seen as taken
UsernameTakenNever(found) == FALSE
\* if let Ok(_) = find_one_resource_where_fields!(User, username_check_params)
UsernameTaken(found) == found.kind = "Ok"

\* the user is inserted, then the codes
UserCreated(d, u, t, username, password, backup_codes, failed, stmts) ==
    LET user == NewUser(u + 1, username, password, t)
    IN  InsertCodes([d EXCEPT !.users = @ \cup {user}], u + 1, t, user, backup_codes,
                    failed, Append(stmts, Stmt("INSERT", TRUE)))

\* -------------------------------------------------------- check_username
\* Ok(user) => not available, Err(_) => available
CheckUsername(found) ==
    IF found.kind = "Ok"
    THEN [status |-> 200, available |-> FALSE, message |-> "Username is not available"]
    ELSE [status |-> 200, available |-> TRUE, message |-> "Username is available"]

\* ------------------------------------------------ specification: accounts
\* UUIDs the generator hands out
MaxUuids == 13

InitAccounts ==
    /\ resource = "none"
    /\ db = EmptyDb
    /\ now = 0
    /\ uuid = 0
    /\ issued = <<>>
    /\ last = NoCall

\* the request is answered: the tables and the log take the outcome; the
\* requests that insert are those the UUIDs left suffice for
Registers(username, password, o) ==
    /\ db' = o.db
    /\ uuid' = o.uuid
    /\ last' = Call([op |-> "register", username |-> username, password |-> password,
                     pre |-> db, stmts |-> o.stmts, reply |-> o.reply])

register ==
    /\ Idle
    /\ \E username \in Usernames, password \in Passwords, looked \in BOOLEAN :
        \E found \in FindOneIn(db.users, [username |-> username], looked) :
            IF UsernameTaken(found)
            THEN Registers(username, password,
                           [db |-> db, uuid |-> uuid, stmts |-> <<Lookup(found)>>,
                            reply |-> Failure(400, "UsernameAlreadyExists")])
            ELSE /\ uuid + 1 + CodeCount <= MaxUuids
                 /\ \/ Registers(username, password,
                                 [db |-> db, uuid |-> uuid + 1,
                                  stmts |-> <<Lookup(found), Stmt("INSERT", FALSE)>>,
                                  reply |-> Failure(400, "UserCreationFailed")])
                    \/ \E backup_codes \in GenerateBackupCodes(db.user_backup_codes,
                                                               CodeCount),
                           failed \in 0..CodeCount :
                           Registers(username, password,
                                     UserCreated(db, uuid, now, username, password,
                                                 backup_codes, failed,
                                                 <<Lookup(found)>>))
    /\ UNCHANGED <<resource, now, issued>>

check_username ==
    /\ Idle
    /\ \E username \in Usernames :
        \E looked \in BOOLEAN :
          \E found \in FindOneIn(db.users, [username |-> username], looked) :
            last' = Call([op |-> "check_username", username |-> username, pre |-> db,
                          stmts |-> <<Lookup(found)>>, reply |-> CheckUsername(found)])
    /\ UNCHANGED <<resource, db, now, uuid, issued>>

NextAccounts ==
    \/ register
    \/ check_username
    \/ Return

SpecAccounts == InitAccounts /\ [][NextAccounts]_vars

\* the users that have the name
Named_(table, username) == Matching(table, [username |-> username])

C18_Original ==
    last.op = "check_username" =>
        /\ last.reply.available <=> Named_(db.users, last.username) = {}
        /\ ~last.stmts[1].ok => ~last.reply.available

\* ------------------------------------ specification: generating the codes
\* the tables after one registration in which every insert ran
Registered ==
    UserCreated(EmptyDb, 0, 0, 1, 1, [i \in 1..CodeCount |-> i], 0,
                <<Stmt("SELECT", TRUE)>>)

InitCodes ==
    /\ resource = "none"
    /\ \E o \in {[db |-> EmptyDb, uuid |-> 0], Registered} :
          db = o.db /\ uuid = o.uuid
    /\ now = 0
    /\ issued = <<>>
    /\ last = NoCall

\* let mut codes = Vec::new()
generate_backup_codes ==
    /\ Idle
    /\ last' = Call([op |-> "generate_backup_codes", pc |-> "loop", codes |-> <<>>,
                     drawn |-> 0, pre |-> db])
    /\ UNCHANGED <<resource, db, now, uuid, issued>>

\* one run of generate_backup_code(): the code is drawn and looked up; it is
\* pushed when the lookup ran and found nothing, and drawn again otherwise
generate_backup_code ==
    /\ last.op = "generate_backup_codes"
    /\ last.pc = "loop"
    /\ Len(last.codes) < CodeCount
    /\ \E backup_code \in generate_code(db.user_backup_codes, last.codes),
          executed \in BOOLEAN :
        LET backup_codes == Matching(db.user_backup_codes, [code |-> backup_code])
            unique == executed /\ backup_codes = {}
        IN  last' = [last EXCEPT
                       !.codes = IF unique THEN Append(@, backup_code) ELSE @,
                       !.drawn = backup_code,
                       !.stmts = <<Stmt("SELECT", executed)>>]
    /\ UNCHANGED <<resource, db, now, uuid, issued>>

\* the loop has run 10 times: codes is returned
generate_backup_codes_return ==
    /\ last.op = "generate_backup_codes"
    /\ last.pc = "loop"
    /\ Len(last.codes) = CodeCount
    /\ last' = [last EXCEPT !.pc = "returned"]
    /\ UNCHANGED <<resource, db, now, uuid, issued>>

NextCodes ==
    \/ generate_backup_codes
    \/ generate_backup_code
    \/ generate_backup_codes_return

SpecCodes == InitCodes /\ [][NextCodes]_vars

\* C16 as stated: generate_backup_codes returns exactly 10 codes, pairwise
\* distinct, none of which is the code of a UserBackupCode row in the database.
C16_Original ==
    (last.op = "generate_backup_codes" /\ last.pc = "returned") =>
        /\ Len(last.codes) = CodeCount
        /\ Cardinality(Range(last.codes)) = Len(last.codes)
        /\ Range(last.codes) \cap StoredCodes(db.user_backup_codes) = {}

\* the batches the loop returns are those of GenerateBackupCodes
CodesAgree ==
    (last.op = "generate_backup_codes" /\ last.pc = "returned") =>
        last.codes \in GenerateBackupCodes(db.user_backup_codes, CodeCount)

\* ------------------------------------------------ specification: sessions
\* sessions the UUIDs suffice for: a session takes one for its token, one for
\* its id
MaxSessions == 2

\* the tokens requests carry: none, those handed out, and one never handed out
TokenInputs == {EmptyToken, Registered.uuid + 2 * MaxSessions + 1} \cup Range(issued)

\* one user is registered
InitSessions ==
    /\ resource = "none"
    /\ db = Registered.db
    /\ now = 0
    /\ uuid = Registered.uuid
    /\ issued = <<>>
    /\ last = NoCall

\* the wall clock moves on to a later instant
AdvanceClock ==
    /\ Idle
    /\ \E t \in Instants : t > now /\ now' = t
    /\ UNCHANGED <<resource, db, uuid, issued, last>>

login ==
    /\ Idle
    /\ \E username \in Usernames, password \in Passwords :
        \E o \in LoginOutcomes(db, uuid, now, username, password) :
            /\ o.uuid <= Registered.uuid + 2 * MaxSessions
            /\ db' = o.db
            /\ uuid' = o.uuid
            /\ issued' = IF o.token = EmptyToken THEN issued ELSE Append(issued, o.token)
            /\ last' = Call([op |-> "login", username |-> username,
                             password |-> password, pre |-> db, stmts |-> o.stmts,
                             reply |-> o.reply, path |-> o.path])
    /\ UNCHANGED <<resource, now>>

validate_token ==
    /\ Idle
    /\ \E token \in TokenInputs :
        \E verified \in ValidateToken(db.authentications, now, token) :
            last' = Call([op |-> "validate_token", token |-> token, pre |-> db,
                          stmts |-> verified.stmts, result |-> verified.result])
    /\ UNCHANGED <<resource, db, now, uuid, issued>>

logout ==
    /\ Idle
    /\ \E token \in TokenInputs :
        \E o \in LogoutOutcomes(db, now, token) :
            /\ db' = o.db
            /\ last' = Call([op |-> "logout", token |-> token, pre |-> db,
                             stmts |-> o.stmts, reply |-> o.reply])
    /\ UNCHANGED <<resource, now, uuid, issued>>

NextSessions ==
    \/ AdvanceClock
    \/ login
    \/ validate_token
    \/ logout
    \/ Return

SpecSessions == InitSessions /\ [][NextSessions]_vars

\* an Authentication row holds the token
HoldsToken(d, token) == \E row \in d.authentications : row.token = token

AllRan(stmts) == \A i \in 1..Len(stmts) : stmts[i].ok

\* C11: when logout returns success for a token, no Authentication row holds
\* the token any more, and no validate_token of that token succeeds afterwards:
\* a token handed out that no row holds is held by no row ever after, and
\* validate_token succeeds only for a token some row holds.
C11_LogoutRevokesToken ==
    [][/\ (last'.op = "logout" /\ last'.reply.status = 200) =>
             /\ last'.token \in Range(issued')
             /\ ~HoldsToken(db', last'.token)
       /\ \A token \in Range(issued) :
             ~HoldsToken(db, token) => ~HoldsToken(db', token)
       /\ (last'.op = "validate_token" /\ last'.result.kind = "Ok") =>
             HoldsToken(db', last'.token)]_vars

C11_Witness ==
    /\ last.op = "validate_token"
    /\ last.token \in Range(issued)
    /\ ~HoldsToken(db, last.token)
    /\ db.authentications # {}
    /\ AllRan(last.stmts)
    /\ last.result = Error("InvalidToken")

\* C12 as stated: validate_token returns Ok exactly when the token is not
\* empty, is the token of a stored Authentication row and that row's
\* expires_at is later than the current time; the empty token is refused
\* without a query (stated for a lookup the database executes).
C12_Original ==
    (last.op = "validate_token" /\ AllRan(last.stmts)) =>
        /\ last.result.kind = "Ok" <=>
             /\ last.token # EmptyToken
             /\ \E row \in db.authentications :
                   /\ row.token = last.token
                   /\ row.expires_at # Null
                   /\ row.expires_at > now
        /\ last.token = EmptyToken => last.stmts = <<>>

\* C14 as stated: on a successful login the session in the response is the
\* stored session as it is after the login, with an expiration 30 days from now.
C14_Original ==
    (last.op = "login" /\ last.reply.status = 200) =>
        /\ last.reply.data \in db.authentications
        /\ last.reply.data.expires_at = now + Days(ExpireDays)

\* -------------------------------------- specification: password resets
\* The handler awaits each of its database calls, and the server runs requests
\* concurrently: the steps of reset_password are its awaits, and the steps of
\* different requests interleave.  Here last holds the requests in progress.
MaxRequests == 2
Requests == 1..MaxRequests

\* the codes requests carry: one the registered user holds, one nobody holds
ResetCodes == {1, CodeCount + 1}

NoRequest ==
    [pc |-> "none", username |-> 0, code |-> 0, new_password |-> 0, user_id |-> 0,
     backup_code_id |-> 0, passed |-> FALSE, changed |-> FALSE, update |-> "none",
     reply |-> Failure(0, "none")]

InitResets ==
    /\ resource = "none"
    /\ db = Registered.db
    /\ now = 0
    /\ uuid = Registered.uuid
    /\ issued = <<>>
    /\ last = [p \in Requests |-> NoRequest]

\* the request p ends with the reply
Replies(p, reply) == last' = [last EXCEPT ![p].pc = "done", ![p].reply = reply]

\* a request arrives
reset_password ==
    /\ \E p \in Requests, username \in Usernames, code \in ResetCodes,
          new_password \in Passwords :
        /\ last[p].pc = "none"
        /\ last' = [last EXCEPT ![p].pc = "find_user", ![p].username = username,
                                ![p].code = code, ![p].new_password = new_password]
    /\ UNCHANGED <<resource, db, now, uuid, issued>>

\* find_one_resource_where_fields!(User, user_params)
reset_password_user ==
    /\ \E p \in Requests, looked \in BOOLEAN :
        /\ last[p].pc = "find_user"
        /\ \E user \in FindOneIn(db.users, [username |-> last[p].username], looked) :
              IF user.kind = "Err"
              THEN Replies(p, Failure(404, "UserNotFound"))
              ELSE last' = [last EXCEPT ![p].pc = "find_code",
                                        ![p].user_id = user.value.id]
    /\ UNCHANGED <<resource, db, now, uuid, issued>>

\* find_one_resource_where_fields!(UserBackupCode, backup_code_params), and the
\* check of backup_code.used
reset_password_code ==
    /\ \E p \in Requests, looked \in BOOLEAN :
        /\ last[p].pc = "find_code"
        /\ \E backup_code \in FindOneIn(db.user_backup_codes,
                                        [user_id |-> last[p].user_id,
                                         code |-> last[p].code], looked) :
              IF backup_code.kind = "Err"
              THEN Replies(p, Failure(404, "CodeNotFound"))
              ELSE IF backup_code.value.used
              THEN Replies(p, Failure(400, "CodeAlreadyUsed"))
              ELSE last' = [last EXCEPT ![p].pc = "mark_used", ![p].passed = TRUE,
                                        ![p].backup_code_id = backup_code.value.id]
    /\ UNCHANGED <<resource, db, now, uuid, issued>>

\* update_resource!(UserBackupCode, backup_code_id, vec![("used", true)])
reset_password_used ==
    /\ \E p \in Requests, outcome \in UpdateOutcomes :
        /\ last[p].pc = "mark_used"
        /\ \E updated \in UpdateResource(
                             UserBackupCodeColumns, db.user_backup_codes,
                             last[p].backup_code_id,
                             UpdateParams("UserBackupCode",
                                          <<Param(FieldName("used"),
                                                  DatabaseValue("Boolean", TRUE))>>,
                                          now, now + Days(ExpireDays)),
                             outcome) :
              /\ db' = [db EXCEPT !.user_backup_codes = updated.table]
              /\ IF updated.result.kind = "Err"
                 THEN Replies(p, Failure(500, "CodeUpdateFailed"))
                 ELSE last' = [last EXCEPT ![p].pc = "set_password"]
    /\ UNCHANGED <<resource, now, uuid, issued>>

\* update_resource!(User, user_id, vec![("user_password", hashed_password)]);
\* the value of the match on its result is dropped
reset_password_update ==
    /\ \E p \in Requests, outcome \in UpdateOutcomes :
        /\ last[p].pc = "set_password"
        /\ \E updated \in UpdateResource(
                             UserColumns, db.users, last[p].user_id,
                             UpdateParams("User",
                                          <<Param(FieldName("user_password"),
                                                  DatabaseValue("String",
                                                      Sha256Hex(last[p].new_password)))>>,
                                          now, now + Days(ExpireDays)),
                             outcome) :
              /\ db' = [db EXCEPT !.users = updated.table]
              /\ last' = [last EXCEPT ![p].pc = "login",
                                      ![p].changed = (outcome # "update_fails"),
                                      ![p].update = updated.result.kind]
    /\ UNCHANGED <<resource, now, uuid, issued>>

\* login(Json(AuthenticationRequest { username, password: new_password })).await
reset_password_login ==
    /\ \E p \in Requests :
        /\ last[p].pc = "login"
        /\ \E o \in LoginOutcomes(db, uuid, now, last[p].username, last[p].new_password) :
              /\ o.uuid <= Registered.uuid + 2 * MaxSessions
              /\ db' = o.db
              /\ uuid' = o.uuid
              /\ issued' = IF o.token = EmptyToken THEN issued ELSE Append(issued, o.token)
              /\ Replies(p, o.reply)
    /\ UNCHANGED <<resource, now>>

NextResets ==
    \/ reset_password
    \/ reset_password_user
    \/ reset_password_code
    \/ reset_password_used
    \/ reset_password_update
    \/ reset_password_login

SpecResets == InitResets /\ [][NextResets]_vars

\* C13 as stated: over every interleaving of reset_password calls, at most one
\* call presenting a given user and code gets past the used-check and changes
\* the password.
C13_Original ==
    \A p, q \in Requests :
        (/\ p # q
         /\ last[p].username = last[q].username
         /\ last[p].code = last[q].code)
        => ~(/\ last[p].passed /\ last[p].changed
             /\ last[q].passed /\ last[q].changed)

\* C17 as stated: a request whose password update failed is answered 500
\* UserUpdateFailed, and one whose password update succeeded is answered with
\* the message "Password reset successfully".
C17_Original ==
    \A p \in Requests :
        last[p].pc = "done" =>
            /\ last[p].update = "Err" => last[p].reply = Failure(500, "UserUpdateFailed")
            /\ last[p].update = "Ok" =>
                  last[p].reply.message = "Password reset successfully"

\* ------------------------------------------------------------------ C21
\* substring-match-or-append, written out: the first entry whose name contains
\* the target is replaced at its position, or else one entry is appended
Expected(before, target, value) ==
    IF Referring(before, target) # {}
    THEN LET first == CHOOSE i \in Referring(before, target) :
                          \A j \in Referring(before, target) : i <= j
         IN  [i \in 1..Len(before) |->
                 IF i = first THEN Param(FieldName(target), value) ELSE before[i]]
    ELSE before \o <<Param(FieldName(target), value)>>

\* the steps of a call: the injections its descriptor enables, in the order
\* created_at (insert only), updated_at, expires_at
ExpectedSteps(op, before) ==
    LET p1 == IF op = "insert_params" /\ is_creatable(resource)
              THEN Expected(before, "created_at", DatabaseValue("DateTime", now))
              ELSE before
        p2 == IF is_updatable(resource)
              THEN Expected(p1, "updated_at", DatabaseValue("DateTime", now)) ELSE p1
    IN  IF is_expirable(resource)
        THEN Expected(p2, "expires_at", DatabaseValue("DateTime", now + ExpireDays))
        ELSE p2

\* C21: every injection of created_at, updated_at and expires_at in insert and
\* update follows substring-match-or-append: if some entry's name contains the
\* target, the first such entry is replaced at its position by the entry named
\* exactly the target with the generated timestamp, the length and the order of
\* all other entries kept; otherwise one new entry is appended at the end.
C21_MatchOrAppend ==
    /\ last.op = "insert_params" =>
          last.params =
              ExpectedSteps(last.op,
                  last.input \o <<Param(FieldName("id"), DatabaseValue("String", last.id))>>)
    /\ last.op = "update_params" =>
          last.params = ExpectedSteps(last.op, last.input)

C21_Witness ==
    /\ last.op = "insert_params"
    /\ resource = "Authentication"
    /\ Referring(last.input, "created_at") = {1, 2}
    /\ last.input[1].field # FieldName("created_at")
    /\ Referring(last.input, "expires_at") = {}
    /\ Len(last.params) = Len(last.input) + 3
    /\ last.params[1].field = FieldName("created_at")
    /\ last.params[2] = last.input[2]

\* ------------------------------------------------------------------ C22
\* the fields of a list whose value is absent, and those whose value is present
Absent(params) == {i \in 1..Len(params) : params[i].value.tag = "None"}
Present(params) == {i \in 1..Len(params) : params[i].value.tag # "None"}

\* the parameters bound for the fields: update binds the id after them
ValueBinds(op, binds) ==
    IF op = "update_params" THEN SubSeq(binds, 1, Len(binds) - 1) ELSE binds

\* C22 as stated: in insert and update an absent value is a literal NULL with
\* no placeholder in the text and no parameter is bound for it: the number of
\* bound value parameters is the number of values that are present.
C22_Original ==
    last.op \in {"insert_params", "update_params"} =>
        /\ \A i \in Absent(last.params) :
              last.query.values[i] = [cast |-> "NULL", ph |-> 0]
        /\ Len(ValueBinds(last.op, last.binds)) = Cardinality(Present(last.params))

\* C22, amended: in insert and update an absent value is a literal NULL with no
\* placeholder in the text, and a parameter is still bound for it, a null one:
\* the number of bound value parameters is the number of fields.
C22_NullLiteralStillBound ==
    last.op \in {"insert_params", "update_params"} =>
        /\ \A i \in Absent(last.params) :
              /\ last.query.values[i] = [cast |-> "NULL", ph |-> 0]
              /\ ValueBinds(last.op, last.binds)[i].v = Null
        /\ \A i \in Present(last.params) : last.query.values[i].ph = i
        /\ Len(ValueBinds(last.op, last.binds)) = Len(last.params)

C22_Witness ==
    /\ last.op = "insert_params"
    /\ 1 \in Absent(last.params)
    /\ 2 \in Present(last.params)
    /\ last.query.values[2].ph = 2
    /\ Len(last.binds) = Len(last.params)

\* ------------------------------------------------------------------ C23
TextTags == {"Str", "String", "Text"}

\* C23 as stated: for every tag of a present value update_resource emits the
\* same cast around the placeholder as insert_resource does for that tag.
C23_Original ==
    last.op = "update_params" =>
        \A i \in Present(last.params) :
            last.query.values[i] = InsertValueExpr(last.params[i].value, i)

\* C23, amended: for every tag of a present value other than the text tags
\* update_resource emits the same cast around the placeholder as insert_resource
\* does (DateTime TIMESTAMP, Int INTEGER, Int64 BIGINT, Float FLOAT, Boolean
\* BOOLEAN); for Str, String and Text it emits the bare placeholder, no cast.
C23_SameCastExceptText ==
    last.op = "update_params" =>
        \A i \in Present(last.params) :
            LET tag == last.params[i].value.tag
                cast == CASE tag = "DateTime" -> "TIMESTAMP"
                          [] tag = "Int" -> "INTEGER"
                          [] tag = "Int64" -> "BIGINT"
                          [] tag = "Float" -> "FLOAT"
                          [] tag = "Boolean" -> "BOOLEAN"
                          [] OTHER -> ""
            IN  /\ last.query.values[i] = [cast |-> cast, ph |-> i]
                /\ tag \notin TextTags =>
                      last.query.values[i] = InsertValueExpr(last.params[i].value, i)
                /\ tag \in TextTags =>
                      InsertValueExpr(last.params[i].value, i).cast \in {"VARCHAR", "TEXT"}

C23_Witness ==
    /\ last.op = "update_params"
    /\ \E i, j \in Present(last.params) :
          /\ last.params[i].value.tag = "Text"
          /\ last.params[j].value.tag = "Int64"
          /\ last.query.values[i].cast = ""
          /\ last.query.values[j].cast = "BIGINT"

MaxWriters == 1     \* statements of other clients between the two statements

\* the table after one insert_resource! call with no caller field
InitRace ==
    /\ resource \in Resources
    /\ now = 0
    /\ uuid = 1
    /\ issued = <<1>>
    /\ LET params == InsertParams(resource, <<>>, 1, 0, 0, ExpireDays)
       IN  db = {PgInsertRow(InsertQuery(params), InsertBinds(params), 1)}
    /\ last = NoCall

\* the first statement: query.execute(&pool), Err(e) => return Err(e)
update_resource_execute ==
    /\ Idle
    /\ \E id \in 1..MaxIds, input \in UpdateLists, stmtOk \in BOOLEAN :
        LET params == UpdateParams(resource, input, now, now + ExpireDays)
            query == UpdateQuery(params)
            binds == UpdateBinds(params, id)
            executed == /\ stmtOk
                        /\ PgWellFormed(query.fields, query.values, binds)
                        /\ query.idph \in 1..Len(binds)
            rec == [between |-> 0]
                   @@ Call([input |-> input, params |-> params, id |-> id,
                            ts |-> now, pre |-> db,
                            stmts |-> <<Stmt("UPDATE", executed)>>])
        IN  /\ db' = IF executed THEN PgUpdate(db, query, binds) ELSE db
            /\ last' = IF UpdateProceeds(executed)
                       THEN [rec EXCEPT !.op = "update_execute"]
                       ELSE [rec EXCEPT !.op = "update", !.result = Err("Database")]
    /\ UNCHANGED <<resource, now, uuid, issued>>

\* the UPDATE of another client's update_resource! call, run between the two
\* statements of the call in progress
concurrent_update ==
    /\ last.op = "update_execute"
    /\ last.between < MaxWriters
    /\ \E id \in 1..MaxIds, input \in UpdateLists :
        LET params == UpdateParams(resource, input, now, now + ExpireDays)
            query == UpdateQuery(params)
            binds == UpdateBinds(params, id)
        IN  /\ PgWellFormed(query.fields, query.values, binds)
            /\ db' = PgUpdate(db, query, binds)
            /\ last' = [last EXCEPT !.between = @ + 1]
    /\ UNCHANGED <<resource, now, uuid, issued>>

\* the second statement: find_one_resource_where_fields!($resource, vec![("id", &$id)])
update_resource_fetch ==
    /\ last.op = "update_execute"
    /\ \E findOk \in BOOLEAN :
        LET find_params == <<Param(FieldName("id"), [tag |-> "id", v |-> last.id])>>
            find_query == SelectQuery("none", find_params, 1)
            find_binds == SelectBinds(find_params)
            found == findOk /\ PgWhereOk(find_query.conds, find_binds)
            rows == IF found THEN PgSelect(db, find_query, find_binds) ELSE {}
        IN  \E row \in (IF rows = {} THEN {NoRow} ELSE rows), bad \in BadRows(rows) :
                last' = [last EXCEPT
                           !.op = "update",
                           !.stmts = Append(@, Stmt("SELECT", found)),
                           !.selected = rows,
                           !.result = UpdateReturn(FetchOne(found, rows, row, bad)),
                           !.mapping = MapOutcome({row}, bad)]
    /\ UNCHANGED <<resource, db, now, uuid, issued>>

NextRace ==
    \/ update_resource_execute
    \/ concurrent_update
    \/ update_resource_fetch
    \/ last.op = "update" /\ Return

SpecRace == InitRace /\ [][NextRace]_vars

\* ------------------------------------------------------------------ C25
\* a field of the row differs from the value the call's statement set
Differs(row, params) ==
    \E i \in 1..Len(params) :
        row[params[i].field[1]] #
            (IF params[i].value.tag = "None" THEN Null ELSE params[i].value.v)

\* C25: update_resource's UPDATE and its follow-up find-one are two statements
\* with no atomicity.  A call returns Ok with a row whose fields differ from
\* the values the call set only when another writer's statement ran between
\* the two, and such an interleaving exists (C25_Witness): a second writer on
\* the same id runs between the statements and the call returns Ok with that
\* writer's row.
C25_StaleOnlyByInterleaving ==
    (/\ last.op = "update"
     /\ Len(last.stmts) = 2
     /\ last.result.kind = "Ok"
     /\ Differs(last.result.value, last.params)) => last.between > 0

C25_Witness ==
    /\ last.op = "update"
    /\ Len(last.stmts) = 2
    /\ last.stmts[1].ok
    /\ last.stmts[2].ok
    /\ last.between = 1
    /\ last.result.kind = "Ok"
    /\ last.result.value["id"] = last.id
    /\ Differs(last.result.value, last.params)

\* ------------------------------------------------------------------ C26
\* the rows of the primary table that have a partner in the joined table on
\* the given column and satisfy every condition
Joined(table, column, conds) ==
    {row \in table :
        /\ \E partner \in SecondaryTable : row[column] = partner.key
        /\ Satisfies(row, "none", conds)}

\* C26 as stated: the ON predicate of the join is <secondary_table>.<secondary>_id
\* = <primary_table>.<primary>_id, each side the table-qualified column named
\* after that resource, and the result is every primary-table row joined on that
\* predicate that satisfies all conditions.
C26_Original ==
    last.op = "join" =>
        \A join_resource \in JoinResources :
            LET q == JoinQuery(resource, join_resource, last.params)
            IN  /\ q.on.left = [table |-> TableName(join_resource),
                                column |-> JoinColumn(join_resource)]
                /\ q.on.right = [table |-> TableName(resource),
                                 column |-> JoinColumn(resource)]
                /\ last.result.kind = "Ok" =>
                      Range(last.result.value) =
                          {Columns_of(row) :
                              row \in Joined(db, JoinColumn(join_resource), last.params)}

\* C26, amended: the ON predicate of the join is <secondary>_id = <primary>_id,
\* each side the bare column named after that resource's singular snake_case
\* name plus _id, with no table qualifier, and the result is every primary-table
\* row joined on that predicate that satisfies all conditions.
C26_JoinPredicate ==
    last.op = "join" =>
        \A join_resource \in JoinResources :
            LET q == JoinQuery(resource, join_resource, last.params)
            IN  /\ q.from = TableName(resource)
                /\ q.join = TableName(join_resource)
                /\ q.on.left = [table |-> "", column |-> JoinColumn(join_resource)]
                /\ q.on.right = [table |-> "", column |-> JoinColumn(resource)]
                /\ last.result.kind = "Ok" =>
                      /\ Range(last.result.value) =
                            {Columns_of(row) :
                                row \in Joined(db, JoinColumn(join_resource), last.params)}
                      /\ Len(last.result.value) =
                            Cardinality(Joined(db, JoinColumn(join_resource), last.params))

C26_Witness ==
    /\ last.op = "join"
    /\ last.stmts[1].ok
    /\ last.result.kind = "Ok"
    /\ Len(last.result.value) = 1
    /\ Cardinality(db) = 2
    /\ Len(last.params) = 2

\* ------------------------------------------------------------------ C27
\* the expressions of a statement, one per field, against its bound parameters:
\* an expression that has a placeholder has the number of its field's position,
\* and the parameter bound at that position is the field's value
PlaceholdersAgree(exprs, binds, params) ==
    /\ Len(exprs) = Len(params)
    /\ Len(binds) >= Len(params)
    /\ \A k \in 1..Len(params) :
          /\ exprs[k].ph # 0 => exprs[k].ph = k
          /\ binds[k].v = params[k].value.v
    /\ \A k \in 1..Len(exprs) : exprs[k].ph <= Len(binds)

C28_Original ==
    (last.op = "register" /\ last.reply.status # 200) =>
        /\ db.users = last.pre.users
        /\ db.user_backup_codes = last.pre.user_backup_codes

====
